---- MODULE Spec2Model ----
(***************************************************************************)
(* Model of the server reconciliation pass of the IP whitelister           *)
(* (serverMode in src/ip.js) together with the collaborators it drives:    *)
(* the gist that holds the identifier -> address document (GistManager),   *)
(* the local state file ufw-state.json and the ufw rule set (UFWManager).  *)
(* SpecNodes models the connector passes (updateIP of src/tui.js,           *)
(* connectorMode of src/ip.js) and the runs main of src/tui.js starts.      *)
(*                                                                         *)
(* A JavaScript object is modelled as the sequence of its own entries in   *)
(* property order (Object.entries), each entry a record                    *)
(* [domain |-> identifier, ip |-> address], with distinct domains.         *)
(* A text (gist file content, state file content) is a record              *)
(* [kind, doc]: kind "json" is the text JSON.stringify(doc, null, 2),      *)
(* kind "garbage" is a text JSON.parse rejects, kind "none" is no file.    *)
(***************************************************************************)
EXTENDS Integers, Sequences, FiniteSets, TLC

\* Number of identifiers (domains) and of addresses the model draws from.
NumIds == 2
NumAddrs == 2

Ids == 1..NumIds
Addrs == 1..NumAddrs

Entry == [domain : Ids, ip : Addrs]

\* every object whose keys are identifiers and whose values are addresses
Docs ==
  { d \in UNION { [1..n -> Entry] : n \in 0..NumIds } :
      \A x \in 1..Len(d) : \A y \in 1..Len(d) : x # y => d[x].domain # d[y].domain }

EmptyDoc == << >>

NoFile == [kind |-> "none", doc |-> EmptyDoc]
Garbage == [kind |-> "garbage", doc |-> EmptyDoc]

\* JSON.stringify(content, null, 2)
Stringify(doc) == [kind |-> "json", doc |-> doc]

Texts == { Stringify(d) : d \in Docs } \cup { Garbage }

\* JSON.parse(text): the object, or a thrown SyntaxError
JSONParse(text) ==
  IF text.kind = "json" THEN [ok |-> TRUE, value |-> text.doc]
  ELSE [ok |-> FALSE, value |-> EmptyDoc]

\* obj.hasOwnProperty(domain)
HasOwnProperty(obj, domain) == \E x \in 1..Len(obj) : obj[x].domain = domain

\* obj[domain], for an own property
Get(obj, domain) == (CHOOSE x \in 1..Len(obj) : obj[x].domain = domain)

Lookup(obj, domain) == obj[Get(obj, domain)].ip

\* Object.values(obj) as a set
Values(obj) == { obj[x].ip : x \in 1..Len(obj) }

Keys(obj) == { obj[x].domain : x \in 1..Len(obj) }

VARIABLES
  gist,       \* content of config.json in the gist; kind "none": no such gist
  stateFile,  \* content of ufw-state.json; kind "none": the file does not exist
  ufw,        \* addresses with an allow rule for the managed port
  pc,         \* position of serverMode
  newData,    \* serverMode: newData
  oldData,    \* serverMode: oldData
  pos,        \* index of the current entry of the running for-of loop
  error,      \* the call whose exception reached the outer catch, or "none"
  issued,     \* ufw calls made by the current pass, in order
  ufw0,       \* ufw when the current pass started
  file0,      \* stateFile when the current pass started
  writes,     \* writeFile calls on the state file made by the current pass
  prevFailed, \* the ufw calls that failed in the previous applied pass
  orphans,    \* the rules the last pass that found an unreadable state file left
              \* without an entry: their addresses
  \* one entry per run of runConnectorNode, runServerNode (src/tui.js) or of
  \* the connector command of src/ip.js:
  impl,           \* "tui": runConnectorNode, "server": runServerNode, "cli": src/ip.js
  proc,           \* the operating system process the run belongs to
  phase,          \* "off", "first" (the awaited first pass), "running" (interval set),
                  \* "failed" (the first pass threw), "done" (connectorMode returned)
  cpc,            \* position of the pass in flight, "idle" when none is
  isUpdating,     \* runConnectorNode / runServerNode: isUpdating
  isViewChanging, \* runConnectorNode: isViewChanging
  lastIP,         \* runConnectorNode: lastIP
  currentIP,      \* ip: the address observed by the pass in flight
  currentContent, \* the object parsed from the gist by the pass in flight
  published,      \* the address of the run's last successful gist write
  threw,          \* the run's last finished pass ended by a throw
  currentRules    \* runServerNode: currentRules, the Set of tui.js:765

\* the variables of the runs
connVars == <<impl, proc, phase, cpc, isUpdating, isViewChanging, lastIP, currentIP,
              currentContent,
              published, threw, currentRules>>

\* the variables of serverMode other than the gist
modeVars == <<stateFile, ufw, pc, newData, oldData, pos, error, issued, ufw0, file0,
              writes, prevFailed, orphans>>

vars == <<gist, stateFile, ufw, pc, newData, oldData, pos, error, issued, ufw0, file0,
          writes, prevFailed, orphans, connVars>>

\* Number of runs the model follows.
NumRuns == 2

Runs == 1..NumRuns

\* let lastIP = '': no address
NoAddr == 0

\* no pass has started: closure variables as declared, nothing read or observed
Fresh ==
  /\ cpc = [r \in Runs |-> "idle"]
  /\ isUpdating = [r \in Runs |-> FALSE]
  /\ isViewChanging = [r \in Runs |-> FALSE]
  /\ lastIP = [r \in Runs |-> NoAddr]
  /\ currentIP = [r \in Runs |-> NoAddr]
  /\ currentContent = [r \in Runs |-> EmptyDoc]
  /\ published = [r \in Runs |-> NoAddr]
  /\ threw = [r \in Runs |-> FALSE]
  /\ currentRules = [r \in Runs |-> {}]

\* serverMode of src/ip.js alone: no run of a node
NoRuns ==
  /\ impl = [r \in Runs |-> "off"]
  /\ proc = [r \in Runs |-> r]
  /\ phase = [r \in Runs |-> "off"]
  /\ Fresh

Call(op, domain, ip, ok) == [op |-> op, domain |-> domain, ip |-> ip, ok |-> ok]

\* UFWManager.addRule(ip): `ufw allow from ip to any port p`
AddRuleEffect(rules, ip, ok) == IF ok THEN rules \cup {ip} ELSE rules

\* UFWManager.removeRule(ip): `ufw delete allow from ip to any port p`
RemoveRuleEffect(rules, ip, ok) == IF ok THEN rules \ {ip} ELSE rules

Init ==
  /\ gist \in Texts \cup {NoFile}
  /\ stateFile = NoFile
  /\ ufw = {}
  /\ pc = "idle"
  /\ newData = EmptyDoc
  /\ oldData = EmptyDoc
  /\ pos = 0
  /\ error = "none"
  /\ issued = << >>
  /\ ufw0 = {}
  /\ file0 = NoFile
  /\ writes = 0
  /\ prevFailed = {}
  /\ orphans = {}
  /\ NoRuns

\* A connector (or anyone with the token) rewrites, creates or deletes the gist.
\* A pass reads the gist once (getGistContent), so only the content at that
\* read matters to it; changes are taken between passes.
GistChange ==
  /\ pc = "idle"
  /\ gist' \in (Texts \cup {NoFile}) \ {gist}
  /\ UNCHANGED <<stateFile, ufw, pc, newData, oldData, pos, error, issued, ufw0, file0>>
  /\ UNCHANGED <<writes, prevFailed, orphans>>
  /\ UNCHANGED connVars

\* main: mode === 'server' -> serverMode()
StartPass ==
  /\ pc = "idle"
  /\ pc' = "getAllGists"
  /\ ufw0' = ufw
  /\ file0' = stateFile
  /\ UNCHANGED <<gist, stateFile, ufw, newData, oldData, pos, error, issued>>
  /\ UNCHANGED <<writes, prevFailed, orphans>>
  /\ UNCHANGED connVars

Throw(where) ==
  /\ pc' = "failed"
  /\ error' = where

\* gistManager.getAllGists() and gists.find(...)
GetAllGists ==
  /\ pc = "getAllGists"
  /\ \/ Throw("getAllGists")
     \/ /\ gist.kind = "none"
        /\ pc' = "returned"
        /\ UNCHANGED error
     \/ /\ gist.kind # "none"
        /\ pc' = "getGistContent"
        /\ UNCHANGED error
  /\ UNCHANGED <<gist, stateFile, ufw, newData, oldData, pos, issued, ufw0, file0>>
  /\ UNCHANGED <<writes, prevFailed, orphans>>
  /\ UNCHANGED connVars

\* getGistContent as it would be if a failed fetch reset the local state
GetGistContent_ResetOnThrow ==
  /\ pc = "getGistContent"
  /\ \/ /\ Throw("getGistContent")
        /\ stateFile' = Stringify(EmptyDoc)
        /\ UNCHANGED newData
     \/ /\ newData' = IF JSONParse(gist).ok THEN JSONParse(gist).value ELSE EmptyDoc
        /\ pc' = "loadState"
        /\ UNCHANGED <<error, stateFile>>
  /\ UNCHANGED <<gist, ufw, oldData, pos, issued, ufw0, file0>>
  /\ UNCHANGED <<writes, prevFailed, orphans>>
  /\ UNCHANGED connVars

\* GistManager.getGistContent(gist)
GetGistContent ==
  /\ pc = "getGistContent"
  /\ \/ /\ Throw("getGistContent")
        /\ UNCHANGED newData
     \/ /\ newData' = IF JSONParse(gist).ok THEN JSONParse(gist).value ELSE EmptyDoc
        /\ pc' = "loadState"
        /\ UNCHANGED error
  /\ UNCHANGED <<gist, stateFile, ufw, oldData, pos, issued, ufw0, file0>>
  /\ UNCHANGED <<writes, prevFailed, orphans>>
  /\ UNCHANGED connVars

\* the object serverMode loads from the state file: {} when the file is absent
\* or when reading or parsing it throws
LocalState(file) ==
  IF file.kind # "none" /\ JSONParse(file).ok THEN JSONParse(file).value ELSE EmptyDoc

\* the load as it would be without the inner try/catch: a state file that
\* cannot be parsed throws to the outer catch
LoadState_ThrowOnGarbage ==
  /\ pc = "loadState"
  /\ IF stateFile.kind = "garbage"
     THEN /\ Throw("readFile")
          /\ UNCHANGED <<oldData, pos>>
     ELSE /\ oldData' = LocalState(stateFile)
          /\ pc' = "loop1"
          /\ pos' = 1
          /\ UNCHANGED error
  /\ UNCHANGED <<gist, stateFile, ufw, newData, issued, ufw0, file0>>
  /\ UNCHANGED <<writes, prevFailed, orphans>>
  /\ UNCHANGED connVars

\* the load as it would be without the existsSync test and the inner
\* try/catch: reading an absent file throws to the outer catch
LoadState_ThrowOnMissing ==
  /\ pc = "loadState"
  /\ IF stateFile.kind = "none"
     THEN /\ Throw("readFile")
          /\ UNCHANGED <<oldData, pos>>
     ELSE /\ oldData' = LocalState(stateFile)
          /\ pc' = "loop1"
          /\ pos' = 1
          /\ UNCHANGED error
  /\ UNCHANGED <<gist, stateFile, ufw, newData, issued, ufw0, file0>>
  /\ UNCHANGED <<writes, prevFailed, orphans>>
  /\ UNCHANGED connVars

\* serverMode: "Load local state"
LoadState ==
  /\ pc = "loadState"
  /\ oldData' = LocalState(stateFile)
  /\ pc' = "loop1"
  /\ pos' = 1
  /\ UNCHANGED <<gist, stateFile, ufw, newData, error, issued, ufw0, file0>>
  /\ UNCHANGED <<writes, prevFailed, orphans>>
  /\ UNCHANGED connVars

InLoop1 == pc = "loop1" /\ pos <= Len(newData)

\* the first branch as it would be without the try/catch inside the loop body:
\* a failing addRule leaves the loop
AddNewRule_BreakOnFailure ==
  /\ InLoop1
  /\ ~HasOwnProperty(oldData, newData[pos].domain)
  /\ \E ok \in BOOLEAN :
       /\ ufw' = AddRuleEffect(ufw, newData[pos].ip, ok)
       /\ issued' = Append(issued, Call("Add", newData[pos].domain, newData[pos].ip, ok))
       /\ pos' = IF ok THEN pos + 1 ELSE Len(newData) + 1
  /\ UNCHANGED <<gist, stateFile, pc, newData, oldData, error, ufw0, file0>>
  /\ UNCHANGED <<writes, prevFailed, orphans>>
  /\ UNCHANGED connVars

\* the first branch as it would be if the state were saved entry by entry
AddNewRule_SaveEach ==
  /\ InLoop1
  /\ ~HasOwnProperty(oldData, newData[pos].domain)
  /\ \E ok \in BOOLEAN :
       /\ ufw' = AddRuleEffect(ufw, newData[pos].ip, ok)
       /\ issued' = Append(issued, Call("Add", newData[pos].domain, newData[pos].ip, ok))
  /\ pos' = pos + 1
  /\ stateFile' = Stringify(SubSeq(newData, 1, pos))
  /\ writes' = writes + 1
  /\ UNCHANGED <<gist, pc, newData, oldData, error, ufw0, file0, prevFailed, orphans>>
  /\ UNCHANGED connVars

\* the first branch as it would be without the try/catch inside the loop body:
\* a failing addRule reaches the outer catch
AddNewRule_ThrowOnFailure ==
  /\ InLoop1
  /\ ~HasOwnProperty(oldData, newData[pos].domain)
  /\ \E ok \in BOOLEAN :
       /\ ufw' = AddRuleEffect(ufw, newData[pos].ip, ok)
       /\ issued' = Append(issued, Call("Add", newData[pos].domain, newData[pos].ip, ok))
       /\ IF ok THEN UNCHANGED <<pc, error>> ELSE Throw("addRule")
  /\ pos' = pos + 1
  /\ UNCHANGED <<gist, stateFile, newData, oldData, ufw0, file0>>
  /\ UNCHANGED <<writes, prevFailed, orphans>>
  /\ UNCHANGED connVars

\* first loop, branch !oldData.hasOwnProperty(domain)
AddNewRule ==
  /\ InLoop1
  /\ ~HasOwnProperty(oldData, newData[pos].domain)
  /\ \E ok \in BOOLEAN :
       /\ ufw' = AddRuleEffect(ufw, newData[pos].ip, ok)
       /\ issued' = Append(issued, Call("Add", newData[pos].domain, newData[pos].ip, ok))
  /\ pos' = pos + 1
  /\ UNCHANGED <<gist, stateFile, pc, newData, oldData, error, ufw0, file0>>
  /\ UNCHANGED <<writes, prevFailed, orphans>>
  /\ UNCHANGED connVars

\* the second branch as it would be with addRule(ip) called before
\* removeRule(oldData[domain])
UpdateRemoveOld_AddFirst ==
  /\ InLoop1
  /\ HasOwnProperty(oldData, newData[pos].domain)
  /\ Lookup(oldData, newData[pos].domain) # newData[pos].ip
  /\ \E ok \in BOOLEAN :
       /\ ufw' = RemoveRuleEffect(AddRuleEffect(ufw, newData[pos].ip, ok),
                                  Lookup(oldData, newData[pos].domain), ok)
       /\ issued' = issued \o
            << Call("Add", newData[pos].domain, newData[pos].ip, ok),
               Call("Remove", newData[pos].domain, Lookup(oldData, newData[pos].domain), ok) >>
  /\ pc' = "loop1"
  /\ pos' = pos + 1
  /\ UNCHANGED <<gist, stateFile, newData, oldData, error, ufw0, file0>>
  /\ UNCHANGED <<writes, prevFailed, orphans>>
  /\ UNCHANGED connVars

\* first loop, branch oldData[domain] !== ip: removeRule(oldData[domain])
UpdateRemoveOld ==
  /\ InLoop1
  /\ HasOwnProperty(oldData, newData[pos].domain)
  /\ Lookup(oldData, newData[pos].domain) # newData[pos].ip
  /\ \E ok \in BOOLEAN :
       /\ ufw' = RemoveRuleEffect(ufw, Lookup(oldData, newData[pos].domain), ok)
       /\ issued' = Append(issued, Call("Remove", newData[pos].domain,
                                        Lookup(oldData, newData[pos].domain), ok))
       /\ IF ok THEN pc' = "loop1add" /\ pos' = pos
                ELSE pc' = "loop1" /\ pos' = pos + 1
  /\ UNCHANGED <<gist, stateFile, newData, oldData, error, ufw0, file0>>
  /\ UNCHANGED <<writes, prevFailed, orphans>>
  /\ UNCHANGED connVars

\* first loop, branch oldData[domain] !== ip: addRule(ip) after the removal
UpdateAddNew ==
  /\ pc = "loop1add"
  /\ \E ok \in BOOLEAN :
       /\ ufw' = AddRuleEffect(ufw, newData[pos].ip, ok)
       /\ issued' = Append(issued, Call("Add", newData[pos].domain, newData[pos].ip, ok))
  /\ pc' = "loop1"
  /\ pos' = pos + 1
  /\ UNCHANGED <<gist, stateFile, newData, oldData, error, ufw0, file0>>
  /\ UNCHANGED <<writes, prevFailed, orphans>>
  /\ UNCHANGED connVars

\* the third branch as it would be if an unchanged entry were added again
NoChange_AddAgain ==
  /\ InLoop1
  /\ HasOwnProperty(oldData, newData[pos].domain)
  /\ Lookup(oldData, newData[pos].domain) = newData[pos].ip
  /\ \E ok \in BOOLEAN :
       /\ ufw' = AddRuleEffect(ufw, newData[pos].ip, ok)
       /\ issued' = Append(issued, Call("Add", newData[pos].domain, newData[pos].ip, ok))
  /\ pos' = pos + 1
  /\ UNCHANGED <<gist, stateFile, pc, newData, oldData, error, ufw0, file0>>
  /\ UNCHANGED <<writes, prevFailed, orphans>>
  /\ UNCHANGED connVars

\* first loop, branch "Same IP, no change needed"
NoChange ==
  /\ InLoop1
  /\ HasOwnProperty(oldData, newData[pos].domain)
  /\ Lookup(oldData, newData[pos].domain) = newData[pos].ip
  /\ pos' = pos + 1
  /\ UNCHANGED <<gist, stateFile, ufw, pc, newData, oldData, error, issued, ufw0, file0>>
  /\ UNCHANGED <<writes, prevFailed, orphans>>
  /\ UNCHANGED connVars

\* the first loop is exhausted, the second one starts
Loop1Done ==
  /\ pc = "loop1"
  /\ pos > Len(newData)
  /\ pc' = "loop2"
  /\ pos' = 1
  /\ UNCHANGED <<gist, stateFile, ufw, newData, oldData, error, issued, ufw0, file0>>
  /\ UNCHANGED <<writes, prevFailed, orphans>>
  /\ UNCHANGED connVars

InLoop2 == pc = "loop2" /\ pos <= Len(oldData)

\* second loop, !newData.hasOwnProperty(oldDomain): removeRule(oldIp)
RemoveDeleted ==
  /\ InLoop2
  /\ ~HasOwnProperty(newData, oldData[pos].domain)
  /\ \E ok \in BOOLEAN :
       /\ ufw' = RemoveRuleEffect(ufw, oldData[pos].ip, ok)
       /\ issued' = Append(issued, Call("Remove", oldData[pos].domain, oldData[pos].ip, ok))
  /\ pos' = pos + 1
  /\ UNCHANGED <<gist, stateFile, pc, newData, oldData, error, ufw0, file0>>
  /\ UNCHANGED <<writes, prevFailed, orphans>>
  /\ UNCHANGED connVars

\* the second loop as it would be with an else branch that applies the rule
\* of a domain that is kept
KeepDomain_AddAgain ==
  /\ InLoop2
  /\ HasOwnProperty(newData, oldData[pos].domain)
  /\ \E ok \in BOOLEAN :
       /\ ufw' = AddRuleEffect(ufw, Lookup(newData, oldData[pos].domain), ok)
       /\ issued' = Append(issued, Call("Add", oldData[pos].domain,
                                        Lookup(newData, oldData[pos].domain), ok))
  /\ pos' = pos + 1
  /\ UNCHANGED <<gist, stateFile, pc, newData, oldData, error, ufw0, file0>>
  /\ UNCHANGED <<writes, prevFailed, orphans>>
  /\ UNCHANGED connVars

\* second loop, the domain is still in newData
KeepDomain ==
  /\ InLoop2
  /\ HasOwnProperty(newData, oldData[pos].domain)
  /\ pos' = pos + 1
  /\ UNCHANGED <<gist, stateFile, ufw, pc, newData, oldData, error, issued, ufw0, file0>>
  /\ UNCHANGED <<writes, prevFailed, orphans>>
  /\ UNCHANGED connVars

Loop2Done ==
  /\ pc = "loop2"
  /\ pos > Len(oldData)
  /\ pc' = "saveState"
  /\ UNCHANGED <<gist, stateFile, ufw, newData, oldData, pos, error, issued, ufw0, file0>>
  /\ UNCHANGED <<writes, prevFailed, orphans>>
  /\ UNCHANGED connVars

\* the saved text as it would be if entries whose operation failed were left out
SavedText_OmitFailed(data) ==
  Stringify(SelectSeq(data, LAMBDA e :
     \A n \in 1..Len(issued) : issued[n].domain = e.domain => issued[n].ok))

\* the saved text as it would be if the entries of the old state that the new
\* data lacks were carried over
SavedText_KeepOld(data) ==
  Stringify(data \o SelectSeq(oldData, LAMBDA e : ~HasOwnProperty(data, e.domain)))

\* writeFile(localStateFile, JSON.stringify(newData, null, 2))
SavedText(data) == Stringify(data)

\* "Save new state".  A failing writeFile leaves the file as it was (the open
\* failed) or truncated (the open truncated it and the write failed).
SaveState ==
  /\ pc = "saveState"
  /\ \/ /\ stateFile' = SavedText(newData)
        /\ pc' = "listRules"
        /\ UNCHANGED error
     \/ /\ stateFile' \in {stateFile, Garbage}
        /\ Throw("writeFile")
  /\ UNCHANGED <<gist, ufw, newData, oldData, pos, issued, ufw0, file0>>
  /\ writes' = writes + 1
  /\ UNCHANGED <<prevFailed, orphans>>
  /\ UNCHANGED connVars

\* ufwManager.listRules()
ListRules ==
  /\ pc = "listRules"
  /\ \/ /\ pc' = "returned"
        /\ UNCHANGED error
     \/ Throw("listRules")
  /\ UNCHANGED <<gist, stateFile, ufw, newData, oldData, pos, issued, ufw0, file0>>
  /\ UNCHANGED <<writes, prevFailed, orphans>>
  /\ UNCHANGED connVars

\* serverMode returns (after retryMenu when it failed); its locals are gone
Return ==
  /\ pc \in {"returned", "failed"}
  /\ pc' = "idle"
  /\ newData' = EmptyDoc
  /\ oldData' = EmptyDoc
  /\ pos' = 0
  /\ error' = "none"
  /\ issued' = << >>
  /\ ufw0' = {}
  /\ file0' = NoFile
  /\ UNCHANGED <<gist, stateFile, ufw>>
  /\ writes' = 0
  /\ UNCHANGED <<prevFailed, orphans>>
  /\ UNCHANGED connVars

\* Return, with the failed ufw calls of the pass kept for the next pass to be
\* compared with (a pass that never got to the loops keeps the earlier record)
ReturnRecord ==
  /\ pc \in {"returned", "failed"}
  /\ pc' = "idle"
  /\ newData' = EmptyDoc
  /\ oldData' = EmptyDoc
  /\ pos' = 0
  /\ error' = "none"
  /\ issued' = << >>
  /\ ufw0' = {}
  /\ file0' = NoFile
  /\ writes' = 0
  /\ prevFailed' = IF writes = 0
                    THEN prevFailed
                    ELSE { <<issued[n].op, issued[n].domain, issued[n].ip>> :
                             n \in { m \in 1..Len(issued) : ~issued[m].ok } }
  /\ UNCHANGED orphans
  /\ UNCHANGED <<gist, stateFile, ufw>>
  /\ UNCHANGED connVars

Next ==
  \/ GistChange
  \/ StartPass
  \/ GetAllGists
  \/ GetGistContent
  \/ LoadState
  \/ AddNewRule
  \/ UpdateRemoveOld
  \/ UpdateAddNew
  \/ NoChange
  \/ Loop1Done
  \/ RemoveDeleted
  \/ KeepDomain
  \/ Loop2Done
  \/ SaveState
  \/ ListRules
  \/ Return

Spec == Init /\ [][Next]_vars

\* the same passes, with the failed calls of each pass remembered across passes
NextRetry ==
  \/ GistChange
  \/ StartPass
  \/ GetAllGists
  \/ GetGistContent
  \/ LoadState
  \/ AddNewRule
  \/ UpdateRemoveOld
  \/ UpdateAddNew
  \/ NoChange
  \/ Loop1Done
  \/ RemoveDeleted
  \/ KeepDomain
  \/ Loop2Done
  \/ SaveState
  \/ ListRules
  \/ ReturnRecord

SpecRetry == Init /\ [][NextRetry]_vars

\* SaveState, with the rules noted that a pass started from an unreadable
\* state file leaves without an entry in the state it saves
SaveStateRecord ==
  /\ pc = "saveState"
  /\ \/ /\ stateFile' = SavedText(newData)
        /\ pc' = "listRules"
        /\ orphans' = IF file0.kind = "garbage" THEN ufw \ Values(newData) ELSE orphans
        /\ UNCHANGED error
     \/ /\ stateFile' \in {stateFile, Garbage}
        /\ Throw("writeFile")
        /\ UNCHANGED orphans
  /\ UNCHANGED <<gist, ufw, newData, oldData, pos, issued, ufw0, file0>>
  /\ writes' = writes + 1
  /\ UNCHANGED prevFailed
  /\ UNCHANGED connVars

\* the same passes, with those rules remembered across passes
NextLost ==
  \/ GistChange
  \/ StartPass
  \/ GetAllGists
  \/ GetGistContent
  \/ LoadState
  \/ AddNewRule
  \/ UpdateRemoveOld
  \/ UpdateAddNew
  \/ NoChange
  \/ Loop1Done
  \/ RemoveDeleted
  \/ KeepDomain
  \/ Loop2Done
  \/ SaveStateRecord
  \/ ListRules
  \/ Return

SpecLost == Init /\ [][NextLost]_vars

\* a step of the pass under way: each await of serverMode settles
PassStep ==
  \/ GetAllGists
  \/ GetGistContent
  \/ LoadState
  \/ AddNewRule
  \/ UpdateRemoveOld
  \/ UpdateAddNew
  \/ NoChange
  \/ Loop1Done
  \/ RemoveDeleted
  \/ KeepDomain
  \/ Loop2Done
  \/ SaveState
  \/ ListRules

\* the passes of Spec, none of which stays at an await for ever
SpecLive == Init /\ [][Next]_vars /\ WF_vars(PassStep)

\* The process is stopped (a signal, a power cut) while a pass is under way;
\* its locals are gone.  writeFile opens the file truncating it and then
\* writes: stopped at the await of line 566 the file is as before (not yet
\* opened), cut short, or complete.
Stop ==
  /\ pc \notin {"idle", "returned", "failed"}
  /\ stateFile' \in IF pc = "saveState" THEN {stateFile, Garbage, SavedText(newData)}
                                          ELSE {stateFile}
  /\ pc' = "idle"
  /\ newData' = EmptyDoc
  /\ oldData' = EmptyDoc
  /\ pos' = 0
  /\ error' = "none"
  /\ issued' = << >>
  /\ ufw0' = {}
  /\ file0' = NoFile
  /\ writes' = 0
  /\ UNCHANGED <<gist, ufw, prevFailed, orphans>>
  /\ UNCHANGED connVars

\* the passes of Spec in a process that may be stopped and started again
NextStop ==
  \/ Next
  \/ Stop

SpecStop == Init /\ [][NextStop]_vars

TypeOK ==
  /\ gist \in Texts \cup {NoFile}
  /\ stateFile \in Texts \cup {NoFile}
  /\ ufw \subseteq Addrs
  /\ newData \in Docs
  /\ oldData \in Docs
  /\ pos \in 0..(NumIds + 1)

(***************************************************************************)
(* The nodes of src/tui.js (runConnectorNode, runServerNode, started by    *)
(* main) and the connector command of src/ip.js (connectorMode).           *)
(*                                                                         *)
(* A run is one call of runConnectorNode or runServerNode, with the        *)
(* closure variables and the key handler it creates, or one machine's use  *)
(* of the connector command.  Two runs are either on two machines (two     *)
(* processes) or are two calls made by main's loop in one process: the     *)
(* second after the first pass of the first call threw and the operator    *)
(* chose "Try again".  Each await of a pass is one step.                   *)
(***************************************************************************)

Impls == {"tui", "cli", "server"}

\* setupWizard saves the identifier as config.identifier and nothing as
\* config.domain: the property name config.domain evaluates to is "undefined"
UndefinedKey == 0

\* the identifier entered on the machine of the run
Ident(r) == IF proc[r] \in Ids THEN proc[r] ELSE NumIds

\* the property the pass assigns: currentContent[config.domain] (tui.js),
\* currentContent[domain] (ip.js)
ConfigDomain(r) == IF impl[r] = "tui" THEN UndefinedKey ELSE Ident(r)

\* obj[key] = value
Set(obj, key, value) ==
  IF HasOwnProperty(obj, key)
  THEN [obj EXCEPT ![Get(obj, key)].ip = value]
  ELSE Append(obj, [domain |-> key, ip |-> value])

\* the object a connector pass sends: what it parsed, with its one assignment
WrittenContent_Merge(r) == Set(gist.doc, ConfigDomain(r), currentIP[r])

WrittenContent(r) == Set(currentContent[r], ConfigDomain(r), currentIP[r])

\* the runs main may start: the first of a process, or the next one once the
\* first pass of every earlier run of the process has thrown
MayStart(r) ==
  /\ phase[r] = "off"
  /\ \A q \in Runs : (q < r /\ proc[q] = proc[r]) => phase[q] = "failed"

InitNodes ==
  /\ gist \in {NoFile, Garbage} \cup { Stringify(d) : d \in { e \in Docs : Len(e) <= 1 } }
  /\ stateFile = NoFile
  \* the rules the firewall holds when the nodes start
  /\ ufw \in {{}, {1}}
  /\ pc = "idle"
  /\ newData = EmptyDoc
  /\ oldData = EmptyDoc
  /\ pos = 0
  /\ error = "none"
  /\ issued = << >>
  /\ ufw0 = {}
  /\ file0 = NoFile
  /\ writes = 0
  /\ prevFailed = {}
  /\ orphans = {}
  /\ impl \in [Runs -> Impls]
  /\ proc \in [Runs -> Runs]
  /\ \A r \in Runs : proc[r] <= r /\ (proc[r] < r => proc[proc[r]] = proc[r])
  /\ \A r \in Runs : proc[r] # r => (impl[r] = impl[proc[r]] /\ impl[r] # "cli")
  \* the tui nodes use the gist their setup found or created; only the
  \* connector command starts without one
  /\ gist = NoFile => \A r \in Runs : impl[r] = "cli"
  /\ phase = [r \in Runs |-> "off"]
  /\ Fresh

\* a pass of run r starts at position at
StartOf(r) == IF impl[r] = "server" THEN "check" ELSE "observe"

\* the end of a pass as it would be without the finally block: the flag is
\* cleared on the way out of the try block only
EndPass_NoFinally(r, ok) ==
  /\ cpc' = [cpc EXCEPT ![r] = "idle"]
  /\ isUpdating' = [isUpdating EXCEPT ![r] = ~ok]
  /\ isViewChanging' = [isViewChanging EXCEPT ![r] = FALSE]
  /\ phase' = [phase EXCEPT ![r] =
                 IF impl[r] = "cli" THEN (IF ok THEN "done" ELSE "failed")
                 ELSE IF phase[r] = "first" THEN (IF ok THEN "running" ELSE "failed")
                 ELSE phase[r]]
  /\ currentIP' = [currentIP EXCEPT ![r] = NoAddr]
  /\ currentContent' = [currentContent EXCEPT ![r] = EmptyDoc]
  /\ threw' = [threw EXCEPT ![r] = ~ok]

\* the end of a pass: finally { isUpdating = false }, the key handler's
\* finally { isViewChanging = false }, and what the caller of the first pass
\* does: setInterval after a return, rejection to main's catch after a throw
EndPass(r, ok) ==
  /\ cpc' = [cpc EXCEPT ![r] = "idle"]
  /\ isUpdating' = [isUpdating EXCEPT ![r] = FALSE]
  /\ isViewChanging' = [isViewChanging EXCEPT ![r] = FALSE]
  /\ phase' = [phase EXCEPT ![r] =
                 IF impl[r] = "cli" THEN (IF ok THEN "done" ELSE "failed")
                 ELSE IF phase[r] = "first" THEN (IF ok THEN "running" ELSE "failed")
                 ELSE phase[r]]
  /\ currentIP' = [currentIP EXCEPT ![r] = NoAddr]
  /\ currentContent' = [currentContent EXCEPT ![r] = EmptyDoc]
  /\ threw' = [threw EXCEPT ![r] = ~ok]

\* main: runConnectorNode(config) / runServerNode(config): the closure, the key
\* handler, then the awaited first updateIP() / updateRules()
RunNode(r) ==
  /\ impl[r] \in {"tui", "server"}
  /\ MayStart(r)
  /\ phase' = [phase EXCEPT ![r] = "first"]
  /\ isUpdating' = [isUpdating EXCEPT ![r] = TRUE]
  /\ cpc' = [cpc EXCEPT ![r] = StartOf(r)]
  /\ UNCHANGED <<impl, proc, isViewChanging, lastIP, currentIP, currentContent,
                 published, threw, currentRules>>
  /\ UNCHANGED <<gist, modeVars>>

\* src/ip.js main loop: connectorMode(), again after it returned
ConnectorMode(r) ==
  /\ impl[r] = "cli"
  /\ phase[r] \in {"off", "done", "failed"}
  /\ phase' = [phase EXCEPT ![r] = "first"]
  /\ cpc' = [cpc EXCEPT ![r] = "observe"]
  /\ UNCHANGED <<impl, proc, isUpdating, isViewChanging, lastIP, currentIP, currentContent,
                 published, threw, currentRules>>
  /\ UNCHANGED <<gist, modeVars>>

\* setInterval(updateIP, UPDATE_INTERVAL) / setInterval(updateRules, ...):
\* a tick calls the function; if (isUpdating) return
TimerTick(r) ==
  /\ phase[r] = "running"
  /\ IF isUpdating[r]
     THEN UNCHANGED <<isUpdating, cpc>>
     ELSE /\ isUpdating' = [isUpdating EXCEPT ![r] = TRUE]
          /\ cpc' = [cpc EXCEPT ![r] = StartOf(r)]
  /\ UNCHANGED <<impl, proc, phase, isViewChanging, lastIP, currentIP, currentContent,
                 published, threw, currentRules>>
  /\ UNCHANGED <<gist, modeVars>>

\* the key handlers registered in process p (term.on('key', ...) is never undone)
Handlers(p) == { r \in Runs : proc[r] = p /\ phase[r] # "off" /\ impl[r] \in {"tui", "server"} }

\* the handler of run r, given the R key, gets past its guards into a pass
KeyStarts(r) == ~isUpdating[r] /\ (impl[r] = "tui" => ~isViewChanging[r])

\* the R key in process p: every registered handler runs, in turn, up to its
\* first await (tui.js 690-704 with the main view shown, 852-854)
KeyR(p) ==
  /\ Handlers(p) # {}
  /\ isUpdating' = [r \in Runs |-> IF r \in Handlers(p) /\ KeyStarts(r) THEN TRUE ELSE isUpdating[r]]
  /\ isViewChanging' = [r \in Runs |->
        IF r \in Handlers(p) /\ KeyStarts(r) /\ impl[r] = "tui" THEN TRUE ELSE isViewChanging[r]]
  /\ cpc' = [r \in Runs |-> IF r \in Handlers(p) /\ KeyStarts(r) THEN StartOf(r) ELSE cpc[r]]
  /\ UNCHANGED <<impl, proc, phase, lastIP, currentIP, currentContent, published, threw,
                 currentRules>>
  /\ UNCHANGED <<gist, modeVars>>

\* what leaves a pass alone
PassFrame == UNCHANGED <<impl, proc, currentRules, modeVars>>

\* updateIP: fetch('https://api.ipify.org?format=json') answers a; then
\* if (ip === lastIP) { isUpdating = false; return; }  lastIP = ip;
FetchIp(r) ==
  /\ impl[r] = "tui" /\ cpc[r] = "observe"
  /\ \E a \in Addrs :
       IF a = lastIP[r]
       THEN /\ EndPass(r, TRUE)
            /\ UNCHANGED lastIP
       ELSE /\ lastIP' = [lastIP EXCEPT ![r] = a]
            /\ currentIP' = [currentIP EXCEPT ![r] = a]
            /\ cpc' = [cpc EXCEPT ![r] = "read"]
            /\ UNCHANGED <<phase, isUpdating, isViewChanging, currentContent, threw>>
  /\ UNCHANGED <<gist, published>>
  /\ PassFrame

\* updateIP: octokit.gists.get, JSON.parse(content || '{}')
GistsGet(r) ==
  /\ impl[r] = "tui" /\ cpc[r] = "read"
  /\ gist.kind = "json"
  /\ currentContent' = [currentContent EXCEPT ![r] = JSONParse(gist).value]
  /\ cpc' = [cpc EXCEPT ![r] = "write"]
  /\ UNCHANGED <<gist, phase, isUpdating, isViewChanging, lastIP, currentIP, published, threw>>
  /\ PassFrame

\* GistsUpdate, but the assignment is made to the gist as it is at the write
GistsUpdate_Refetch(r) ==
  /\ impl[r] = "tui" /\ cpc[r] = "write"
  /\ gist.kind # "none"
  /\ gist' = Stringify(Set(gist.doc, ConfigDomain(r), currentIP[r]))
  /\ published' = [published EXCEPT ![r] = currentIP[r]]
  /\ cpc' = [cpc EXCEPT ![r] = "save"]
  /\ UNCHANGED <<phase, isUpdating, isViewChanging, lastIP, currentIP, currentContent, threw>>
  /\ PassFrame

\* updateIP: currentContent[config.domain] = ip; octokit.gists.update
GistsUpdate(r) ==
  /\ impl[r] = "tui" /\ cpc[r] = "write"
  /\ gist.kind # "none"
  /\ gist' = Stringify(WrittenContent(r))
  /\ published' = [published EXCEPT ![r] = currentIP[r]]
  /\ cpc' = [cpc EXCEPT ![r] = "save"]
  /\ UNCHANGED <<phase, isUpdating, isViewChanging, lastIP, currentIP, currentContent, threw>>
  /\ PassFrame

\* updateIP: config.lastRun = ...; await saveConfig(config)
SaveConfig(r) ==
  /\ impl[r] = "tui" /\ cpc[r] = "save"
  /\ EndPass(r, TRUE)
  /\ UNCHANGED <<gist, lastIP, published>>
  /\ PassFrame

\* connectorMode: const ip = await getDeviceIp()
GetDeviceIp(r) ==
  /\ impl[r] = "cli" /\ cpc[r] = "observe"
  /\ \E a \in Addrs : currentIP' = [currentIP EXCEPT ![r] = a]
  /\ cpc' = [cpc EXCEPT ![r] = "list"]
  /\ UNCHANGED <<gist, phase, isUpdating, isViewChanging, lastIP, currentContent,
                 published, threw>>
  /\ PassFrame

\* connectorMode: gists = await getAllGists(); configGist = gists.find(...)
FindConfigGist(r) ==
  /\ impl[r] = "cli" /\ cpc[r] = "list"
  /\ cpc' = [cpc EXCEPT ![r] = IF gist.kind = "none" THEN "create" ELSE "read"]
  /\ UNCHANGED <<gist, phase, isUpdating, isViewChanging, lastIP, currentIP, currentContent,
                 published, threw>>
  /\ PassFrame

\* connectorMode: createGist(domain, ip).  When another machine created a
\* gist since the listing there are two; later listings find either first.
CreateGist(r) ==
  /\ impl[r] = "cli" /\ cpc[r] = "create"
  /\ \/ gist' = Stringify(Set(EmptyDoc, ConfigDomain(r), currentIP[r]))
     \/ gist.kind # "none" /\ gist' = gist
  /\ published' = [published EXCEPT ![r] = currentIP[r]]
  /\ EndPass(r, TRUE)
  /\ UNCHANGED lastIP
  /\ PassFrame

\* connectorMode: currentContent = await getGistContent(configGist); a text
\* JSON.parse rejects gives {}
GetContent(r) ==
  /\ impl[r] = "cli" /\ cpc[r] = "read"
  /\ gist.kind # "none"
  /\ currentContent' = [currentContent EXCEPT ![r] = JSONParse(gist).value]
  /\ cpc' = [cpc EXCEPT ![r] = "write"]
  /\ UNCHANGED <<gist, phase, isUpdating, isViewChanging, lastIP, currentIP, published, threw>>
  /\ PassFrame

\* connectorMode: currentContent[domain] = ip; updateGist(configGist.id, currentContent)
UpdateGist(r) ==
  /\ impl[r] = "cli" /\ cpc[r] = "write"
  /\ gist.kind # "none"
  /\ gist' = Stringify(WrittenContent(r))
  /\ published' = [published EXCEPT ![r] = currentIP[r]]
  /\ EndPass(r, TRUE)
  /\ UNCHANGED lastIP
  /\ PassFrame

\* updateRules: checkAndConfigureSSH() and checkAndConfigureUFW() both true
CheckRequirements(r) ==
  /\ impl[r] = "server" /\ cpc[r] = "check"
  /\ cpc' = [cpc EXCEPT ![r] = "fetch"]
  /\ UNCHANGED <<gist, phase, isUpdating, isViewChanging, lastIP, currentIP, currentContent,
                 published, threw>>
  /\ PassFrame

\* updateRules: octokit.gists.get, allowedIPs = JSON.parse(content)
FetchWhitelist(r) ==
  /\ impl[r] = "server" /\ cpc[r] = "fetch"
  /\ gist.kind = "json"
  /\ currentContent' = [currentContent EXCEPT ![r] = JSONParse(gist).value]
  /\ cpc' = [cpc EXCEPT ![r] = "rules"]
  /\ UNCHANGED <<gist, phase, isUpdating, isViewChanging, lastIP, currentIP,
                 published, threw>>
  /\ PassFrame

\* a parameter the call leaves out
Undefined == "undefined"

\* addUFWRule(ip, config) and removeUFWRule(oldIp, config): whether the
\* function returns (TRUE) or throws (FALSE). The command line is built from
\* config.sshPort inside the try: with config undefined that read throws and
\* the catch rethrows; with a config the command runs and succeeds or fails
UFWRuleOutcomes(config) == IF config = Undefined THEN {FALSE} ELSE {TRUE, FALSE}

\* the listing of the firewall's rules for the port: the addresses with an
\* active rule (the specification's list operation; src/tui.js calls
\* getExistingUFWRules and does not define it)
ListedRules == ufw

\* updateRules: rules = await getExistingUFWRules(); newRules = the values of
\* allowedIPs; for (rule of rules) if the rule's address is not in newRules:
\* await removeUFWRule(rule.number), called without config. The command of
\* removeUFWRule, `ufw delete deny from ...`, deletes no allow rule
GetExistingUFWRules(r) ==
  /\ impl[r] = "server" /\ cpc[r] = "rules"
  /\ LET stale == ListedRules \ Values(currentContent[r])
     IN IF stale = {}
        THEN /\ cpc' = [cpc EXCEPT ![r] = "add"]
             /\ UNCHANGED <<phase, isUpdating, isViewChanging, currentIP, currentContent, threw>>
        ELSE \E ok \in UFWRuleOutcomes(Undefined) :
               IF ok
               THEN /\ cpc' = [cpc EXCEPT ![r] = "add"]
                    /\ UNCHANGED <<phase, isUpdating, isViewChanging, currentIP,
                                   currentContent, threw>>
               ELSE EndPass(r, FALSE)
  /\ UNCHANGED <<gist, lastIP, published>>
  /\ PassFrame

\* updateRules: for ([domain, ip] of Object.entries(allowedIPs))
\* if (!currentRules.has(ip)) { await addUFWRule(ip); currentRules.add(ip) },
\* addUFWRule called without config; the loop taken as one step, ended by
\* its first throw
AddNewRules(r) ==
  /\ impl[r] = "server" /\ cpc[r] = "add"
  /\ LET missing == Values(currentContent[r]) \ currentRules[r]
     IN IF missing = {}
        THEN /\ cpc' = [cpc EXCEPT ![r] = "save"]
             /\ UNCHANGED <<phase, isUpdating, isViewChanging, currentIP, currentContent, threw,
                            currentRules, ufw>>
        ELSE \E ok \in UFWRuleOutcomes(Undefined) :
               IF ok
               THEN /\ ufw' = ufw \cup missing
                    /\ currentRules' = [currentRules EXCEPT ![r] = @ \cup missing]
                    /\ cpc' = [cpc EXCEPT ![r] = "save"]
                    /\ UNCHANGED <<phase, isUpdating, isViewChanging, currentIP,
                                   currentContent, threw>>
               ELSE /\ EndPass(r, FALSE)
                    /\ UNCHANGED <<currentRules, ufw>>
  /\ UNCHANGED <<gist, lastIP, published, impl, proc>>
  /\ UNCHANGED <<stateFile, pc, newData, oldData, pos, error, issued, ufw0, file0,
                 writes, prevFailed, orphans>>

\* updateRules: config.lastRun = ...; await saveConfig(config); the pass returns
SaveLastRun(r) ==
  /\ impl[r] = "server" /\ cpc[r] = "save"
  /\ EndPass(r, TRUE)
  /\ UNCHANGED <<gist, lastIP, published>>
  /\ PassFrame

\* Throws, but with a failed observation swallowed: the pass goes on without
\* an address
Throws_ObserveContinues(r) ==
  /\ cpc[r] \in {"observe", "list", "read", "write", "create", "save", "check", "fetch"}
  /\ IF cpc[r] = "observe"
     THEN /\ cpc' = [cpc EXCEPT ![r] = IF impl[r] = "cli" THEN "list" ELSE "read"]
          /\ UNCHANGED <<phase, isUpdating, isViewChanging, currentIP, currentContent, threw>>
     ELSE EndPass(r, FALSE)
  /\ UNCHANGED <<gist, lastIP, published>>
  /\ PassFrame

\* the await at the pass's position throws (network, GitHub, a text
\* JSON.parse rejects, the file system, a failed requirement): catch, rethrow
Throws(r) ==
  /\ cpc[r] \in {"observe", "list", "read", "write", "create", "save", "check", "fetch"}
  /\ EndPass(r, FALSE)
  /\ UNCHANGED <<gist, lastIP, published>>
  /\ PassFrame

NextNodes ==
  \/ \E r \in Runs : RunNode(r)
  \/ \E r \in Runs : ConnectorMode(r)
  \/ \E r \in Runs : TimerTick(r)
  \/ \E p \in Runs : KeyR(p)
  \/ \E r \in Runs : FetchIp(r)
  \/ \E r \in Runs : GistsGet(r)
  \/ \E r \in Runs : GistsUpdate(r)
  \/ \E r \in Runs : SaveConfig(r)
  \/ \E r \in Runs : GetDeviceIp(r)
  \/ \E r \in Runs : FindConfigGist(r)
  \/ \E r \in Runs : CreateGist(r)
  \/ \E r \in Runs : GetContent(r)
  \/ \E r \in Runs : UpdateGist(r)
  \/ \E r \in Runs : CheckRequirements(r)
  \/ \E r \in Runs : FetchWhitelist(r)
  \/ \E r \in Runs : GetExistingUFWRules(r)
  \/ \E r \in Runs : AddNewRules(r)
  \/ \E r \in Runs : SaveLastRun(r)
  \/ \E r \in Runs : Throws(r)

SpecNodes == InitNodes /\ [][NextNodes]_vars

(***************************************************************************)
(* Vocabulary of the properties                                            *)
(***************************************************************************)

\* two objects hold the same identifier -> address mapping
SameMapping(a, b) ==
  /\ Keys(a) = Keys(b)
  /\ \A k \in Keys(a) : Lookup(a, k) = Lookup(b, k)

AddedIds(old, new) == Keys(new) \ Keys(old)
DeletedIds(old, new) == Keys(old) \ Keys(new)
ChangedIds(old, new) ==
  { k \in Keys(old) \cap Keys(new) : Lookup(old, k) # Lookup(new, k) }

\* the operations the diff of old against new calls for, as <<op, id, address>>
PlannedCalls(old, new) ==
       { <<"Add", k, Lookup(new, k)>> : k \in AddedIds(old, new) }
  \cup { <<"Remove", k, Lookup(old, k)>> : k \in ChangedIds(old, new) }
  \cup { <<"Add", k, Lookup(new, k)>> : k \in ChangedIds(old, new) }
  \cup { <<"Remove", k, Lookup(old, k)>> : k \in DeletedIds(old, new) }

\* the first operation the diff calls for on each identifier it touches
FirstCalls(old, new) ==
       { <<"Add", k, Lookup(new, k)>> : k \in AddedIds(old, new) }
  \cup { <<"Remove", k, Lookup(old, k)>> :
           k \in ChangedIds(old, new) \cup DeletedIds(old, new) }

IssuedCalls == { <<issued[n].op, issued[n].domain, issued[n].ip>> : n \in 1..Len(issued) }

FailedIds == { issued[n].domain : n \in { m \in 1..Len(issued) : ~issued[m].ok } }

\* both loops are over: every operation of the pass has been attempted or skipped
LoopsOver ==
  \/ pc \in {"saveState", "listRules"}
  \/ pc = "returned" /\ gist.kind # "none"
  \/ pc = "failed" /\ error \in {"writeFile", "listRules"}

\* the pass wrote its checkpoint
Checkpointed ==
  \/ pc = "listRules"
  \/ pc = "returned" /\ gist.kind # "none"
  \/ pc = "failed" /\ error = "listRules"

FetchFailed == pc = "failed" /\ error \in {"getAllGists", "getGistContent"}

\* the pass is past the fetch and the load of the local state
PastLoad == pc \in {"loop1", "loop1add", "loop2", "saveState", "listRules", "failed"}
            \/ (pc = "returned" /\ gist.kind # "none")

\* the checkpoint the pass started from: an absent file is the empty checkpoint
Checkpoint0 == file0.doc

\* C1: once both loops are over, the operations issued to the firewall are
\* exactly those of the diff of the checkpoint against the fetched document:
\* Add for a new identifier, Remove and Add for a changed one, Remove for a
\* deleted one, one call each and nothing else.
C1_IssuedIsPlan ==
  (LoopsOver /\ gist.kind = "json" /\ file0.kind # "garbage") =>
     /\ IssuedCalls = PlannedCalls(Checkpoint0, gist.doc)
     /\ Len(issued) = Cardinality(PlannedCalls(Checkpoint0, gist.doc))

\* C2: at every moment of a pass, an Add and a Remove issued for the same
\* identifier belong to a changed identifier and the Remove came first; an Add
\* for a changed identifier is never issued without its Remove before it.
C2_RemoveBeforeAdd ==
  /\ \A x \in 1..Len(issued) : \A y \in 1..Len(issued) :
       (issued[x].domain = issued[y].domain /\ issued[x].op = "Remove" /\ issued[y].op = "Add") =>
          /\ x < y
          /\ issued[x].domain \in ChangedIds(oldData, newData)
          /\ issued[x].ip = Lookup(oldData, issued[x].domain)
          /\ issued[y].ip = Lookup(newData, issued[y].domain)
  /\ \A y \in 1..Len(issued) :
       (issued[y].op = "Add" /\ issued[y].domain \in ChangedIds(oldData, newData)) =>
          \E x \in 1..(y - 1) : issued[x].op = "Remove" /\ issued[x].domain = issued[y].domain

C2_Witness ==
  /\ LoopsOver
  /\ Len(issued) >= 3
  /\ \E x \in 1..Len(issued) : \E y \in 1..Len(issued) :
       x < y /\ issued[x].domain = issued[y].domain
             /\ issued[x].op = "Remove" /\ issued[y].op = "Add"

\* C3: a pass whose checkpoint holds the same mapping as the fetched document
\* issues no Add and no Remove, leaves the rules alone, and leaves a checkpoint
\* holding that mapping.
C3_Idempotent ==
  (PastLoad /\ ~FetchFailed /\ gist.kind = "json" /\ file0.kind = "json"
            /\ SameMapping(file0.doc, gist.doc)) =>
     /\ issued = << >>
     /\ ufw = ufw0
     /\ error # "writeFile" => (stateFile.kind = "json" /\ SameMapping(stateFile.doc, gist.doc))
     /\ Checkpointed => stateFile = Stringify(gist.doc)

C3_Witness ==
  /\ pc = "returned"
  /\ gist.kind = "json"
  /\ file0.kind = "json"
  /\ Len(gist.doc) = NumIds
  /\ SameMapping(file0.doc, gist.doc)
  /\ issued = << >>
  /\ stateFile = Stringify(gist.doc)

\* C4: after a checkpointed pass that started with the rules equal to the
\* addresses of the checkpoint, every identifier of the new checkpoint without
\* a failed operation has a rule for its new address and none for its
\* previous address.
C4_RulesMatchCheckpoint ==
  (Checkpointed /\ gist.kind = "json" /\ file0.kind # "garbage"
                /\ ufw0 = Values(Checkpoint0)) =>
     \A k \in Keys(newData) \ FailedIds :
        /\ Lookup(newData, k) \in ufw
        /\ k \in ChangedIds(Checkpoint0, newData) => Lookup(Checkpoint0, k) \notin ufw

\* C5: at the end of a pass in which no operation failed, every address of
\* the fetched document has a rule, and no address of the checkpoint that the
\* fetched document lacks still has one.
C5_NoAccessTakenAway ==
  (Checkpointed /\ gist.kind = "json" /\ file0.kind # "garbage"
                /\ ufw0 = Values(Checkpoint0) /\ FailedIds = {}) =>
     /\ Values(newData) \subseteq ufw
     /\ (Values(Checkpoint0) \ Values(newData)) \cap ufw = {}

\* C6: a pass whose fetch threw (listing the gists or fetching the content)
\* issued no operation, left the rules as they were and left the state file
\* as it was.
C6_FetchFailureNoOp ==
  FetchFailed => (issued = << >> /\ ufw = ufw0 /\ stateFile = file0)

C6_Witness ==
  /\ FetchFailed
  /\ file0.kind = "json"
  /\ file0.doc # EmptyDoc
  /\ ufw # {}
  /\ gist.kind = "json"
  /\ ~SameMapping(gist.doc, file0.doc)

\* C7: when the gist content is not valid JSON the pass aborts: it issues no
\* operation and leaves the state file as it was.
C7_MalformedAborts ==
  (gist.kind = "garbage" /\ pc # "idle") =>
     /\ issued = << >>
     /\ stateFile = file0
     /\ pc \notin {"listRules", "returned"}

\* C8: once the fetch succeeded no failing Add or Remove fails the pass, and
\* the checkpoint the pass writes is the full fetched document, entries with
\* a failed operation included.
C8_ForwardOnly ==
  /\ pc = "failed" => error \in {"getAllGists", "getGistContent", "writeFile", "listRules"}
  /\ (Checkpointed /\ gist.kind = "json") => stateFile = Stringify(gist.doc)

C8_Witness ==
  /\ pc = "returned"
  /\ gist.kind = "json"
  /\ Len(issued) >= 2
  /\ \A n \in 1..Len(issued) : ~issued[n].ok
  /\ \E n \in 1..Len(issued) : issued[n].op = "Add"
  /\ stateFile = Stringify(gist.doc)

\* C9: failures are isolated per identifier: once both loops are over, the
\* first operation planned for each identifier has been attempted whatever
\* failed for the others, and every identifier none of whose own operations
\* failed has had all its planned operations attempted.
C9_FailureIsolation ==
  LoopsOver =>
     /\ FirstCalls(oldData, newData) \subseteq IssuedCalls
     /\ \A c \in PlannedCalls(oldData, newData) : c[2] \notin FailedIds => c \in IssuedCalls

C9_Witness ==
  /\ LoopsOver
  /\ Len(issued) >= 2
  /\ ~issued[1].ok
  /\ \E n \in 2..Len(issued) : issued[n].domain # issued[1].domain
  /\ \E k \in Keys(newData) \cup Keys(oldData) :
        k \notin FailedIds /\ \E c \in PlannedCalls(oldData, newData) : c[2] = k

\* C10: for a changed identifier, a failed Remove of the old address is
\* followed in the same pass by an Add of the new address.
C10_AddAfterFailedRemove ==
  LoopsOver =>
     \A x \in 1..Len(issued) :
        (issued[x].op = "Remove" /\ ~issued[x].ok
            /\ issued[x].domain \in ChangedIds(oldData, newData)) =>
           \E y \in (x + 1)..Len(issued) :
              /\ issued[y].op = "Add"
              /\ issued[y].domain = issued[x].domain
              /\ issued[y].ip = Lookup(newData, issued[x].domain)

\* C11: the state file is written by at most one writeFile call per pass; the
\* call is made when both loops are over (the first operation of every touched
\* identifier attempted, and all operations of every identifier without a
\* failure of its own), no ufw call follows it in the pass, and the file never
\* changes otherwise.
C11_WriteOnceAfterLoops ==
  [][ /\ writes' > writes =>
           /\ writes = 0
           /\ pc = "saveState"
           /\ FirstCalls(oldData, newData) \subseteq IssuedCalls
           /\ \A c \in PlannedCalls(oldData, newData) : c[2] \notin FailedIds => c \in IssuedCalls
      /\ stateFile' # stateFile => writes' > writes
      /\ writes >= 1 => (issued' = issued \/ pc' = "idle") ]_vars

C11_Witness ==
  /\ writes = 1
  /\ pc = "listRules"
  /\ Len(issued) >= 2
  /\ stateFile # file0
  /\ file0.kind = "json"

\* C12: whenever the state file changes, the checkpoint it now holds (as the
\* server loads it) is empty or is the document the gist held when the pass
\* fetched it.
C12_CheckpointFromStore ==
  [][ stateFile' # stateFile =>
         \/ LocalState(stateFile') = EmptyDoc
         \/ gist.kind = "json" /\ LocalState(stateFile') = gist.doc ]_vars

C12_Witness ==
  /\ pc = "idle"
  /\ stateFile.kind = "json"
  /\ Len(stateFile.doc) = NumIds
  /\ gist.kind = "json"
  /\ gist.doc # EmptyDoc
  /\ ~SameMapping(gist.doc, stateFile.doc)

\* C13: an Add that failed in the previous pass, for an identifier the fetched
\* document still gives that address while the firewall has no rule for it, is
\* issued again by this pass; so is a failed Remove of an address the fetched
\* document does not hold while its rule is still there.
C13_RetryNextPass ==
  (LoopsOver /\ gist.kind = "json") =>
     \A c \in prevFailed :
        /\ (c[1] = "Add" /\ c[2] \in Keys(newData) /\ c[3] \notin ufw0
               /\ Lookup(newData, c[2]) = c[3]) =>
              \E n \in 1..Len(issued) : issued[n].op = "Add" /\ issued[n].ip = c[3]
        /\ (c[1] = "Remove" /\ c[3] \notin Values(newData) /\ c[3] \in ufw0) =>
              \E n \in 1..Len(issued) : issued[n].op = "Remove" /\ issued[n].ip = c[3]

(***************************************************************************)
(* The connector passes (SpecNodes)                                        *)
(***************************************************************************)

\* this step is a gist write (update or create) of run r that succeeded
Wrote(r) ==
  /\ cpc[r] \in {"write", "create"}
  /\ cpc'[r] # cpc[r]
  /\ cpc'[r] = "idle" => ~threw'[r]

\* obj[key], NoAddr for undefined
At(obj, key) == IF HasOwnProperty(obj, key) THEN Lookup(obj, key) ELSE NoAddr

\* C14: a connector pass whose observed address equals the last address the
\* connector published does not write the gist, in updateIP (tui.js) and in
\* connectorMode (ip.js).
C14_NoWriteWhenUnchanged ==
  [][ \A r \in Runs : Wrote(r) => currentIP[r] # published[r] ]_vars

\* C15: the connector's last published address (lastIP of updateIP) changes
\* only when a publish succeeded: between passes it is the address of the
\* run's last successful gist write, also after a pass whose read or write of
\* the gist failed.
C15_LastIPIsPublished ==
  \A r \in Runs : (impl[r] = "tui" /\ cpc[r] = "idle") => lastIP[r] = published[r]

\* this step is the failure of the observation of run r's pass
ObserveFailed(r) == impl[r] \in {"tui", "cli"} /\ cpc[r] = "observe" /\ cpc'[r] = "idle" /\ threw'[r]

\* C16: when observing the address fails, the pass ends there and the gist is
\* not written; every gist write of a connector stores an address it
\* observed, never the empty one.
C16_ObserveFailureSkips ==
  [][ \A r \in Runs :
        /\ ObserveFailed(r) => (gist' = gist /\ published' = published /\ lastIP' = lastIP)
        /\ (cpc[r] = "observe" /\ cpc'[r] \notin {"observe", "idle"}) => currentIP'[r] \in Addrs
        /\ Wrote(r) => (currentIP[r] \in Addrs /\ NoAddr \notin Values(gist'.doc)) ]_vars

\* the first pass of a tui connector failed at the observation (lastIP is
\* still ''), the gist holds a document
C16_Witness ==
  \E r \in Runs :
    /\ impl[r] = "tui" /\ phase[r] = "failed" /\ threw[r] /\ lastIP[r] = NoAddr
    /\ cpc[r] = "idle" /\ gist.kind = "json" /\ gist.doc # EmptyDoc

\* C17: the document a connector writes is the document it read with one
\* change: the entry of the identifier entered in setup is set to the observed
\* address; every other key is written back with its value.
C17_WritesOwnEntry ==
  [][ \A r \in Runs :
        (Wrote(r) /\ cpc[r] = "write") =>
           gist'.doc = Set(currentContent[r], Ident(r), currentIP[r]) ]_vars

\* the keys a document of the gist may hold
NodeKeys == Ids \cup {UndefinedKey}

\* run b is a connector that assigns another entry than run a and wrote its
\* entry after a's pass read the gist: the gist holds b's address, a read another
ChangedSinceRead(a, b) ==
  /\ a # b /\ impl[b] \in {"tui", "cli"}
  /\ Ident(a) # Ident(b) /\ ConfigDomain(a) # ConfigDomain(b)
  /\ cpc[a] = "write"
  /\ gist.kind = "json"
  /\ published[b] \in Addrs
  /\ At(gist.doc, ConfigDomain(b)) = published[b]
  /\ At(currentContent[a], ConfigDomain(b)) # published[b]

\* C18 as claimed: a change connector B made to its own entry between
\* connector A's read and A's write is still in the document after A's write.
C18_ConcurrentChangePreserved ==
  [][ \A a \in Runs : \A b \in Runs :
        (ChangedSinceRead(a, b) /\ Wrote(a)) =>
           At(gist'.doc, ConfigDomain(b)) = At(gist.doc, ConfigDomain(b)) ]_vars

\* C18 as amended: A's write replaces the whole document by the one A read
\* with A's assignment: every other key holds the value A read (none if A
\* read none), so a change B made between A's read and A's write is undone.
C18_StaleWriteOverwrites ==
  [][ \A a \in Runs :
        (Wrote(a) /\ cpc[a] = "write") =>
           \A k \in NodeKeys \ {ConfigDomain(a)} :
              At(gist'.doc, k) = At(currentContent[a], k) ]_vars

\* a connector command has written its entry and the address the tui
\* connector published after that pass's read is gone from the document
C18_Witness ==
  \E a \in Runs : \E b \in Runs :
    /\ impl[a] = "cli" /\ impl[b] = "tui" /\ Ident(a) # Ident(b)
    /\ cpc[a] = "idle" /\ ~threw[a] /\ cpc[b] = "idle"
    /\ gist.kind = "json"
    /\ published[a] \in Addrs /\ At(gist.doc, ConfigDomain(a)) = published[a]
    /\ published[b] \in Addrs /\ At(gist.doc, ConfigDomain(b)) = NoAddr

\* C19: the read-modify-write of a connector is not atomic: when connector b
\* wrote its entry after connector a's pass read the gist (both read before
\* either wrote), a's write leaves the document without b's update: b's entry
\* is what a read, not what b wrote.
C19_LostUpdate ==
  [][ \A a \in Runs : \A b \in Runs :
        (ChangedSinceRead(a, b) /\ Wrote(a)) =>
           /\ At(gist'.doc, ConfigDomain(b)) # published[b]
           /\ At(gist'.doc, ConfigDomain(a)) = currentIP[a] ]_vars

\* both connectors have published, the tui connector last: the document holds
\* its address and not the address the connector command published
C19_Witness ==
  \E a \in Runs : \E b \in Runs :
    /\ impl[a] = "tui" /\ impl[b] = "cli" /\ Ident(a) # Ident(b)
    /\ cpc[a] = "idle" /\ ~threw[a] /\ cpc[b] = "idle" /\ ~threw[b]
    /\ gist.kind = "json"
    /\ published[a] \in Addrs /\ At(gist.doc, ConfigDomain(a)) = published[a]
    /\ published[b] \in Addrs /\ At(gist.doc, ConfigDomain(b)) # published[b]

\* C20: at most one pass is in flight in a process: a trigger (the R key, a
\* timer tick) that arrives while a pass of the process is running starts no
\* second pass.
C20_OnePassInFlight ==
  \A a \in Runs : \A b \in Runs :
    (a # b /\ proc[a] = proc[b]) => ~(cpc[a] # "idle" /\ cpc[b] # "idle")

(***************************************************************************)
(* The checkpoint file and the order of the server pass                    *)
(***************************************************************************)

\* C22: the checkpoint file is replaced atomically: when the process is
\* stopped during a pass, the file on disk is the complete checkpoint the pass
\* started from or the complete fetched document.
C22_AtomicReplace ==
  [][ (pc \notin {"idle", "returned", "failed"} /\ pc' = "idle") =>
         stateFile' \in {file0, Stringify(newData)} ]_vars

\* C23: when the write of the checkpoint fails, the pass is reported as
\* failed and the checkpoint the next pass will load is the one this pass
\* started from.
C23_FailedWriteKeepsBaseline ==
  (pc = "saveState" \/ (pc = "failed" /\ error = "writeFile")) =>
     LocalState(stateFile) = LocalState(file0)

\* the pass is in or past its loops
InLoops == pc \in {"loop1", "loop1add", "loop2"} \/ LoopsOver

\* C24: a pass that finds no checkpoint file works from the empty checkpoint:
\* it issues an Add for each entry of the fetched document, in order, and no
\* Remove, and the missing file is not among the failures of the pass.
C24_NoFileAllAdds ==
  file0.kind = "none" =>
     /\ InLoops =>
           /\ Len(issued) <= Len(newData)
           /\ \A n \in 1..Len(issued) :
                 /\ issued[n].op = "Add"
                 /\ issued[n].domain = newData[n].domain
                 /\ issued[n].ip = newData[n].ip
     /\ LoopsOver => Len(issued) = Len(newData)
     /\ pc = "failed" => error \in {"getAllGists", "getGistContent", "writeFile", "listRules"}

C24_Witness ==
  /\ file0.kind = "none"
  /\ pc = "listRules"
  /\ Len(newData) = NumIds
  /\ Len(issued) = NumIds
  /\ \E n \in 1..Len(issued) : ~issued[n].ok

\* the order of a pass: Idle, Fetching (getAllGists, getGistContent), Diffing
\* (loadState), Applying (the two loops), Checkpointing (saveState), the
\* listing of the rules, and the return
PassOrder ==
  { <<"idle", "getAllGists">>, <<"getAllGists", "getGistContent">>,
    <<"getAllGists", "returned">>, <<"getAllGists", "failed">>,
    <<"getGistContent", "loadState">>, <<"getGistContent", "failed">>,
    <<"loadState", "loop1">>, <<"loop1", "loop1add">>, <<"loop1add", "loop1">>,
    <<"loop1", "loop2">>, <<"loop2", "saveState">>,
    <<"saveState", "listRules">>, <<"saveState", "failed">>,
    <<"listRules", "returned">>, <<"listRules", "failed">>,
    <<"returned", "idle">>, <<"failed", "idle">> }

\* C25 as claimed: only the fetch can fail the pass as a whole.
C25_OnlyFetchFails ==
  pc = "failed" => error \in {"getAllGists", "getGistContent"}

\* C25 as amended: the pass follows the order Idle, Fetching, Diffing,
\* Applying, Checkpointing; once the fetch has succeeded no apply step fails
\* the pass, which always reaches the checkpoint write whatever steps failed;
\* only that write and the listing of the rules after it can still fail the
\* pass, and it then ends.
C25_PassOrder ==
  /\ [][ /\ pc' # pc => <<pc, pc'>> \in PassOrder
         /\ pc' = "failed" => error' \in {"getAllGists", "getGistContent", "writeFile", "listRules"}
     ]_vars
  /\ (pc = "loadState") ~> (pc = "saveState")
  /\ (pc = "saveState") ~> (pc \in {"returned", "failed"})

C25_Witness ==
  /\ pc = "returned"
  /\ writes = 1
  /\ Len(issued) >= 2
  /\ \A n \in 1..Len(issued) : ~issued[n].ok

\* C28 as claimed: the rules a pass started from an unreadable state file
\* leaves without an entry are removed by no later pass.
C28_OrphansNeverRemoved ==
  [][ \A x \in orphans : x \in ufw => x \in ufw' ]_vars

\* C28 as amended: a pass that finds a state file it cannot parse works from
\* the empty checkpoint: Adds for the entries of the fetched document, in
\* order, no Remove, no failure on account of the file, and the state file is
\* overwritten with the fetched document; the rules this leaves without an
\* entry are removed by no pass unless the checkpoint that pass loaded
\* lists the address again.
C28_LostCheckpoint ==
  /\ [](file0.kind = "garbage" =>
          /\ InLoops =>
                /\ \A n \in 1..Len(issued) :
                      issued[n] = Call("Add", newData[n].domain, newData[n].ip, issued[n].ok)
                /\ ufw0 \subseteq ufw
          /\ LoopsOver => Len(issued) = Len(newData)
          /\ Checkpointed => stateFile = Stringify(newData)
          /\ pc = "failed" => error \in {"getAllGists", "getGistContent", "writeFile", "listRules"})
  /\ [][ \A x \in orphans : (x \in ufw /\ x \notin ufw') => x \in Values(oldData) ]_vars

C28_Witness ==
  /\ file0.kind = "garbage"
  /\ pc = "listRules"
  /\ Len(issued) >= 1
  /\ orphans # {}
  /\ orphans \subseteq ufw

\* C29: the Removes for identifiers absent from the fetched document come
\* after every Add and replace (Remove, Add) for the identifiers it holds; the
\* latter follow the key order of the fetched document, the former the key
\* order of the checkpoint.
C29_ApplyOrder ==
  \A x \in 1..Len(issued) : \A y \in 1..Len(issued) :
    x < y =>
      /\ ~HasOwnProperty(newData, issued[x].domain) =>
            /\ issued[x].op = "Remove"
            /\ ~HasOwnProperty(newData, issued[y].domain)
            /\ Get(oldData, issued[x].domain) < Get(oldData, issued[y].domain)
      /\ (HasOwnProperty(newData, issued[x].domain) /\ HasOwnProperty(newData, issued[y].domain)) =>
            Get(newData, issued[x].domain) <= Get(newData, issued[y].domain)

\* a replace (Remove, Add) for a changed identifier, then the Remove of a
\* deleted identifier that comes first in the checkpoint
C29_Witness ==
  /\ LoopsOver
  /\ Len(issued) = 3
  /\ issued[1].op = "Remove" /\ issued[2].op = "Add" /\ issued[3].op = "Remove"
  /\ HasOwnProperty(newData, issued[1].domain)
  /\ ~HasOwnProperty(newData, issued[3].domain)
  /\ Get(oldData, issued[3].domain) < Get(oldData, issued[1].domain)

(***************************************************************************)
(* The passes of the tui nodes over time (SpecNodes)                       *)
(***************************************************************************)

\* C26: isUpdating is false whenever no pass of the run is under way: a pass
\* that returned, returned early on an unchanged address, or threw has
\* cleared it, and the next trigger gets past the guard.
C26_FlagClearedWhenIdle ==
  \A r \in Runs : cpc[r] = "idle" => ~isUpdating[r]

\* a pass after the first one has thrown, in a run whose timer is set
C26_Witness ==
  \E r \in Runs :
    /\ impl[r] = "tui" /\ phase[r] = "running"
    /\ cpc[r] = "idle" /\ threw[r] /\ ~isUpdating[r]
    /\ lastIP[r] # NoAddr

\* C21: after a pass of a tui node aborted by an error, the first pass of
\* runConnectorNode or runServerNode included, the interval timer of the run
\* is scheduled, so that a later tick starts another pass.
C21_TimerAfterFailure ==
  \A r \in Runs :
    (impl[r] \in {"tui", "server"} /\ cpc[r] = "idle" /\ threw[r]) => phase[r] = "running"

====
